---- MODULE Spec2Model ----
(***************************************************************************)
(* Model of supersimpleserver.py: a single-threaded HTTP server whose GET  *)
(* handler serves files below the current working directory and whose POST *)
(* handler echoes the request body.                                        *)
(*                                                                         *)
(* Strings are sequences of atoms.  An atom is one character ("/", ".",    *)
(* "?") or a run of characters that the model never needs to split         *)
(* ("srv", "site", "-backup", "index.html", "%2f", ...).  "site-backup" is *)
(* <<"site", "-backup">>, so that the character-level prefix test of       *)
(* str.startswith is the prefix test on sequences.                         *)
(***************************************************************************)
EXTENDS Integers, Sequences, FiniteSets, TLC

\* ------------------------------------------------------------------ bounds
MaxSegs == 2
MaxConns == 2
MaxBody == 2

\* --------------------------------------------------------------- constants
PORT == 8000

\* Python's None, where a string is expected.
NoneType == <<"None">>

\* ----------------------------------------------------------------- strings
RECURSIVE LStrip(_, _)
LStrip(s, ch) ==
  IF s # <<>> /\ Head(s) = ch THEN LStrip(Tail(s), ch) ELSE s

StartsWith(s, prefix) ==
  /\ Len(s) >= Len(prefix)
  /\ SubSeq(s, 1, Len(prefix)) = prefix

\* Index of the first atom of s that is in the set stops, Len(s)+1 if none.
RECURSIVE FirstOf(_, _, _)
FirstOf(s, stops, i) ==
  IF i > Len(s) \/ s[i] \in stops THEN i ELSE FirstOf(s, stops, i + 1)

\* str.split("/"): the components between slashes, empty ones included.
RECURSIVE Split(_)
Split(s) ==
  LET i == FirstOf(s, {"/"}, 1)
  IN  IF i > Len(s) THEN <<s>>
      ELSE <<SubSeq(s, 1, i - 1)>> \o Split(SubSeq(s, i + 1, Len(s)))

\* "/".join(comps)
RECURSIVE JoinSlash(_)
JoinSlash(comps) ==
  IF comps = <<>> THEN <<>>
  ELSE IF Len(comps) = 1 THEN comps[1]
  ELSE comps[1] \o <<"/">> \o JoinSlash(Tail(comps))

\* urllib.parse.urlparse(target).path for a target without a scheme: a
\* leading "//" starts a network location that runs to the next "/", "?" or
\* "#"; the path then runs to the first "?" or "#".
UrlPath(target) ==
  LET afterNetloc ==
        IF StartsWith(target, <<"/", "/">>)
        THEN LET rest == SubSeq(target, 3, Len(target))
                 j == FirstOf(rest, {"/", "?", "#"}, 1)
             IN  SubSeq(rest, j, Len(rest))
        ELSE target
      k == FirstOf(afterNetloc, {"?", "#"}, 1)
  IN  SubSeq(afterNetloc, 1, k - 1)

\* os.path.join(a, b) on POSIX
PathJoin(a, b) ==
  IF b # <<>> /\ Head(b) = "/" THEN b
  ELSE IF a = <<>> \/ a[Len(a)] = "/" THEN a \o b
  ELSE a \o <<"/">> \o b

\* The component loop of posixpath.normpath.
RECURSIVE Collapse(_, _, _)
Collapse(comps, new_comps, initial_slashes) ==
  IF comps = <<>> THEN new_comps
  ELSE LET comp == Head(comps)
           n == Len(new_comps)
       IN  IF comp = <<>> \/ comp = <<".">>
           THEN Collapse(Tail(comps), new_comps, initial_slashes)
           ELSE IF \/ comp # <<".", ".">>
                   \/ (initial_slashes = 0 /\ n = 0)
                   \/ (n > 0 /\ new_comps[n] = <<".", ".">>)
           THEN Collapse(Tail(comps), Append(new_comps, comp), initial_slashes)
           ELSE IF n > 0
           THEN Collapse(Tail(comps), SubSeq(new_comps, 1, n - 1), initial_slashes)
           ELSE Collapse(Tail(comps), new_comps, initial_slashes)

\* os.path.normpath on POSIX
NormPath(path) ==
  IF path = <<>> THEN <<".">>
  ELSE LET initial_slashes ==
             IF ~StartsWith(path, <<"/">>) THEN 0
             ELSE IF StartsWith(path, <<"/", "/">>) /\ ~StartsWith(path, <<"/", "/", "/">>)
             THEN 2 ELSE 1
           body == JoinSlash(Collapse(Split(path), <<>>, initial_slashes))
           res == [i \in 1..initial_slashes |-> "/"] \o body
       IN  IF res = <<>> THEN <<".">> ELSE res

\* mimetypes.guess_type(file_path)[0]: the type of the base name's extension.
GuessType(file_path) ==
  LET comps == Split(file_path)
      base == comps[Len(comps)]
  IN  IF base = <<"index.html">> THEN <<"text/html">> ELSE NoneType

\* str(n) for n >= 0: the decimal digits.
Digit(d) == <<"0", "1", "2", "3", "4", "5", "6", "7", "8", "9">>[d + 1]

RECURSIVE Str(_)
Str(n) == IF n < 10 THEN <<Digit(n)>> ELSE Str(n \div 10) \o <<Digit(n % 10)>>

DigitValue(c) ==
  CHOOSE d \in 0..9 : Digit(d) = c

IsDigits(s) ==
  s # <<>> /\ \A i \in 1..Len(s) : s[i] \in {Digit(d) : d \in 0..9}

RECURSIVE DigitsValue(_)
DigitsValue(s) ==
  IF s = <<>> THEN 0 ELSE 10 * DigitsValue(SubSeq(s, 1, Len(s) - 1)) + DigitValue(s[Len(s)])

\* int(v): [ok, val]; ok is FALSE where int raises ValueError.
ParseInt(v) ==
  IF IsDigits(v) THEN [ok |-> TRUE, val |-> DigitsValue(v)]
  ELSE IF v # <<>> /\ Head(v) = "-" /\ IsDigits(Tail(v))
  THEN [ok |-> TRUE, val |-> 0 - DigitsValue(Tail(v))]
  ELSE [ok |-> FALSE, val |-> 0]

\* ------------------------------------------------------------------- UTF-8
\* Bytes are named by their hex value.  3C is "<"; C3 leads a two-byte
\* sequence and A9 is a continuation byte: C3 A9 is "e-acute".
AsciiBytes == {"3C"}
LeadBytes == {"C3"}
ContBytes == {"A9"}
ByteSet == AsciiBytes \cup LeadBytes \cup ContBytes

AsciiChar(b) == IF b = "3C" THEN "<" ELSE b
TwoByteChar(b1, b2) == IF b1 = "C3" /\ b2 = "A9" THEN "e-acute" ELSE "U+FFFD"

\* bytes.decode('utf-8'): [ok, text]; ok is FALSE where it raises
\* UnicodeDecodeError.
RECURSIVE Decode(_)
Decode(bytes) ==
  IF bytes = <<>> THEN [ok |-> TRUE, text |-> <<>>]
  ELSE IF Head(bytes) \in AsciiBytes
  THEN LET r == Decode(Tail(bytes))
       IN  [ok |-> r.ok, text |-> <<AsciiChar(Head(bytes))>> \o r.text]
  ELSE IF Head(bytes) \in LeadBytes /\ Len(bytes) >= 2 /\ bytes[2] \in ContBytes
  THEN LET r == Decode(SubSeq(bytes, 3, Len(bytes)))
       IN  [ok |-> r.ok, text |-> <<TwoByteChar(bytes[1], bytes[2])>> \o r.text]
  ELSE [ok |-> FALSE, text |-> <<>>]

\* str.encode('utf-8'); an atom of ASCII text is its own encoding.
RECURSIVE Encode(_)
Encode(text) ==
  IF text = <<>> THEN <<>>
  ELSE (IF Head(text) = "<" THEN <<"3C">>
        ELSE IF Head(text) = "e-acute" THEN <<"C3", "A9">>
        ELSE <<Head(text)>>) \o Encode(Tail(text))

\* ------------------------------------------------------------------- state
VARIABLES
  cwd,             \* os.getcwd(), the served root
  fs,              \* the file system: absolute path -> entry
  serving,         \* httpd.serve_forever() is running
  arrived,         \* connections made by clients so far
  accepted,        \* connections accepted by the server so far
  active,          \* connections whose request is being handled
  pc,              \* position of the handler
  command,         \* the request's verb
  target,          \* self.path
  headers_cl,      \* self.headers['Content-Length']
  rfile,           \* body bytes the client has sent so far
  eof,             \* the client has closed its sending side
  file_path,       \* do_GET: file_path
  content_length,  \* do_POST: content_length
  post_data,       \* do_POST: post_data
  hdrbuf,          \* headers buffered by send_response / send_header
  wfile,           \* everything written to the client, in order
  touched,         \* the handler has queried or opened a file for this request
  outcome,         \* how the handler ended: "returned" or "raised"
  dirty,           \* history: the file system changed during this request
  hist             \* history: the last finished request, if it ran undisturbed

vars == <<cwd, fs, serving, arrived, accepted, active, pc, command, target,
          headers_cl, rfile, eof, file_path, content_length, post_data,
          hdrbuf, wfile, touched, outcome, dirty, hist>>

histVars == <<dirty, hist>>
connVars == <<arrived, accepted, active>>
reqVars == <<command, target, headers_cl>>
postVars == <<content_length, post_data>>

server_version == "SimpleServer/0.1"

\* ------------------------------------------------------------- file system
Root == <<"/", "srv", "/", "site">>
Roots == {Root}

\* The places of the file system that other processes create, change and
\* remove: index.html in the root, and a sibling of the root whose name
\* extends the root's name.
FsRel == {<<"index.html">>, <<".", ".", "/", "site", "-backup">>}
FsNames(root) == {NormPath(PathJoin(root, r)) : r \in FsRel}

FileData == {<<>>, <<"3C">>}

Missing == [kind |-> "missing", readable |-> FALSE, data |-> <<>>]
Directory == [kind |-> "dir", readable |-> TRUE, data |-> <<>>]
RegularFiles == [kind : {"file"}, readable : BOOLEAN, data : FileData]
Entries == {Missing, Directory} \cup RegularFiles

\* The served root and the directories above it exist.
RECURSIVE Ancestors(_)
Ancestors(p) ==
  IF p = <<"/">> THEN {p}
  ELSE {p} \cup Ancestors(NormPath(p \o <<"/", ".", ".">>))

Lookup(p) ==
  IF p \in DOMAIN fs THEN fs[p]
  ELSE IF p \in Ancestors(cwd) THEN Directory
  ELSE Missing

\* ---------------------------------------------------------------- requests
SegNames ==
  { <<".", ".">>, <<"index.html">>, <<"site">>, <<"site", "-backup">>,
    <<".", ".", "%2f", "etc">> }

RECURSIVE SegPaths(_)
SegPaths(n) ==
  IF n = 0 THEN {<<"/">>}
  ELSE SegPaths(n - 1) \cup
       {(IF p = <<"/">> THEN p ELSE p \o <<"/">>) \o seg :
          p \in SegPaths(n - 1), seg \in SegNames}

DeepNested == <<"/", "a", "/", ".", ".", "/", ".", ".", "/", ".", ".", "/", ".", ".">>

GetTargets ==
  SegPaths(MaxSegs) \cup
  {DeepNested, <<"?", "q">>, <<"/", "?", "q">>, <<"/", ".">>}

PostTargets == {<<"/">>, <<"/", "site", "-backup">>}

ContentLengths ==
  {NoneType, <<"a", "b", "c">>, <<"-", "1">>} \cup {Str(n) : n \in 0..MaxBody}

\* ---------------------------------------------------------------- response
Status(code) == [kind |-> "status", code |-> code, name |-> "", value |-> <<>>]
Header(name, value) == [kind |-> "header", code |-> 0, name |-> name, value |-> value]
Body(data) == [kind |-> "body", code |-> 0, name |-> "", value |-> data]

\* BaseHTTPRequestHandler.send_response: the status line and the Server
\* header go to the header buffer (the Date header is left out).
SendResponse(buf, code) ==
  buf \o <<Status(code), Header("Server", <<server_version>>)>>

\* BaseHTTPRequestHandler.send_error: the status line and headers are added
\* to whatever the header buffer holds, the buffer is flushed, and the error
\* page with the message follows.
SendError(w, buf, code, message) ==
  w \o SendResponse(buf, code)
    \o <<Header("Connection", <<"close">>),
         Header("Content-Type", <<"text/html;charset=utf-8">>),
         Body(<<"error page: ">> \o message)>>

Init ==
  /\ cwd \in Roots
  /\ fs \in [FsNames(cwd) -> Entries]
  /\ serving = TRUE
  /\ arrived = 0
  /\ accepted = 0
  /\ active = {}
  /\ pc = "idle"
  /\ command = ""
  /\ target = <<>>
  /\ headers_cl = NoneType
  /\ rfile = <<>>
  /\ eof = FALSE
  /\ file_path = <<>>
  /\ content_length = 0
  /\ post_data = <<>>
  /\ hdrbuf = <<>>
  /\ wfile = <<>>
  /\ touched = FALSE
  /\ outcome = ""
  /\ dirty = FALSE
  /\ hist = <<>>

\* ----------------------------------------------------------------- clients
\* A client connects; the connection waits in the listen queue.
Connect ==
  /\ serving
  /\ arrived < MaxConns
  /\ arrived' = arrived + 1
  /\ UNCHANGED <<histVars, cwd, fs, serving, accepted, active, pc, reqVars, rfile, eof,
                 file_path, postVars, hdrbuf, wfile, touched, outcome>>

\* The client of the request being handled sends one more body byte.  Bytes
\* sent before the handler reads wait in the socket, so they are taken as
\* arriving when the handler is at the read.
ClientSend ==
  /\ pc = "read"
  /\ ~eof
  /\ Len(rfile) < MaxBody
  /\ \E b \in ByteSet : rfile' = Append(rfile, b)
  /\ UNCHANGED <<histVars, cwd, fs, serving, connVars, pc, reqVars, eof, file_path,
                 postVars, hdrbuf, wfile, touched, outcome>>

\* The client of the request being handled closes its sending side.
ClientEOF ==
  /\ pc = "read"
  /\ ~eof
  /\ eof' = TRUE
  /\ UNCHANGED <<histVars, cwd, fs, serving, connVars, pc, reqVars, rfile, file_path,
                 postVars, hdrbuf, wfile, touched, outcome>>

\* Another process creates, removes, rewrites or re-modes a file.  do_POST
\* makes no file system call, so a change during a POST is taken before or
\* after it.
FsChange ==
  /\ serving
  /\ command # "POST"
  /\ \E name \in DOMAIN fs, e \in Entries :
       /\ e # fs[name]
       /\ fs' = [fs EXCEPT ![name] = e]
  /\ UNCHANGED <<cwd, serving, connVars, pc, reqVars, rfile, eof, file_path,
                 postVars, hdrbuf, wfile, touched, outcome>>

FsMutate == FsChange /\ UNCHANGED histVars

\* ------------------------------------------------------------------ server
\* Mutant of MayAccept: a threading server, which accepts while a request is
\* still being handled.
MayAcceptThreaded == TRUE

\* socketserver.TCPServer handles a request inside the accept loop: the next
\* connection is accepted when no request is being handled.
MayAccept == active = {}

\* serve_forever accepts the oldest waiting connection and the handler reads
\* the request line and headers.
Accept(verb, t, cl) ==
  /\ serving
  /\ MayAccept
  /\ accepted < arrived
  /\ accepted' = accepted + 1
  /\ active' = active \cup {accepted + 1}
  /\ command' = verb
  /\ target' = t
  /\ headers_cl' = cl
  /\ pc' = IF verb = "GET" THEN "do_GET" ELSE "do_POST"
  /\ rfile' = <<>>
  /\ eof' = FALSE
  /\ file_path' = <<>>
  /\ content_length' = 0
  /\ post_data' = <<>>
  /\ hdrbuf' = <<>>
  /\ wfile' = <<>>
  /\ touched' = FALSE
  /\ outcome' = ""
  /\ UNCHANGED <<cwd, fs, serving, arrived>>

AcceptGet ==
  /\ \E t \in GetTargets : Accept("GET", t, NoneType)
  /\ UNCHANGED histVars

AcceptPost ==
  /\ \E t \in PostTargets, cl \in ContentLengths : Accept("POST", t, cl)
  /\ UNCHANGED histVars

\* The handler returned or raised: the connection is shut down and the accept
\* loop goes on.
Shutdown ==
  /\ serving
  /\ pc = "done"
  /\ active' = {}
  /\ pc' = "idle"
  /\ command' = ""
  /\ target' = <<>>
  /\ headers_cl' = NoneType
  /\ rfile' = <<>>
  /\ eof' = FALSE
  /\ file_path' = <<>>
  /\ content_length' = 0
  /\ post_data' = <<>>
  /\ hdrbuf' = <<>>
  /\ wfile' = <<>>
  /\ touched' = FALSE
  /\ outcome' = ""
  /\ UNCHANGED <<cwd, fs, serving, arrived, accepted>>

Finish == Shutdown /\ UNCHANGED histVars

\* Ctrl+C: KeyboardInterrupt ends serve_forever, the server socket is closed
\* and the process exits, whatever the handler was doing.
Interrupt ==
  /\ serving
  /\ serving' = FALSE
  /\ active' = {}
  /\ pc' = "stopped"
  /\ command' = ""
  /\ target' = <<>>
  /\ headers_cl' = NoneType
  /\ rfile' = <<>>
  /\ eof' = FALSE
  /\ file_path' = <<>>
  /\ content_length' = 0
  /\ post_data' = <<>>
  /\ hdrbuf' = <<>>
  /\ wfile' = <<>>
  /\ touched' = FALSE
  /\ outcome' = ""
  /\ UNCHANGED <<histVars, cwd, fs, arrived, accepted>>

\* The handler returns normally having written w.
Return(w) ==
  /\ wfile' = w
  /\ hdrbuf' = <<>>
  /\ pc' = "done"
  /\ outcome' = "returned"

\* Mutant of Raise: the exception escapes serve_forever and ends the server.
RaiseStopsServer ==
  /\ pc' = "done"
  /\ outcome' = "raised"
  /\ serving' = FALSE
  /\ UNCHANGED <<wfile, hdrbuf>>

\* An exception leaves the handler: the server reports it, drops the
\* connection and keeps serving.
Raise ==
  /\ pc' = "done"
  /\ outcome' = "raised"
  /\ UNCHANGED <<serving, wfile, hdrbuf>>

\* ------------------------------------------------------------------ do_GET
\* Mutant of DefaultDocument: no default document.
DefaultDocumentNone(path) == path

\* "Default to index.html for the root path"
DefaultDocument(path) ==
  IF path = <<"/">> THEN <<"/", "index.html">> ELSE path

\* file_path = os.path.normpath(os.path.join(os.getcwd(), path.lstrip('/')))
ResolvePath(root, t) ==
  NormPath(PathJoin(root, LStrip(DefaultDocument(UrlPath(t)), "/")))

\* file_path.startswith(os.getcwd())
WithinRoot(fp, root) == StartsWith(fp, root)

\* Mutant of OsIsFile: the type check is an existence check.
OsIsFileAsExists(p) == Lookup(p).kind # "missing"

OsExists(p) == Lookup(p).kind # "missing"
OsIsFile(p) == Lookup(p).kind = "file"

\* os.path.getsize: a stat of the path; [ok, val, err].
GetSize(p) ==
  LET e == Lookup(p)
  IN  IF e.kind = "missing"
      THEN [ok |-> FALSE, val |-> 0, err |-> "FileNotFoundError"]
      ELSE IF e.kind = "dir"
      THEN [ok |-> TRUE, val |-> 4096, err |-> ""]
      ELSE [ok |-> TRUE, val |-> Len(e.data), err |-> ""]

\* open(file_path, 'rb') and file.read(); [ok, data, err].
OpenRead(p) ==
  LET e == Lookup(p)
  IN  IF e.kind = "missing"
      THEN [ok |-> FALSE, data |-> <<>>, err |-> "FileNotFoundError"]
      ELSE IF e.kind = "dir"
      THEN [ok |-> FALSE, data |-> <<>>, err |-> "IsADirectoryError"]
      ELSE IF ~e.readable
      THEN [ok |-> FALSE, data |-> <<>>, err |-> "PermissionError"]
      ELSE [ok |-> TRUE, data |-> e.data, err |-> ""]

ContentType(fp) ==
  IF GuessType(fp) = NoneType THEN <<"application/octet-stream">> ELSE GuessType(fp)

\* except Exception as e: self.send_error(500, ...)
InternalError(err) ==
  Return(SendError(wfile, hdrbuf, 500, <<"Internal Server Error: ", err>>))

\* Lines 31-47: resolve the path and check that it is within the root.
DoGetResolve ==
  /\ serving
  /\ pc = "do_GET"
  /\ LET fp == ResolvePath(cwd, target)
     IN  /\ file_path' = fp
         /\ IF ~WithinRoot(fp, cwd)
            THEN Return(SendError(wfile, hdrbuf, 403, <<"Forbidden: Access denied.">>))
            ELSE /\ pc' = "exists"
                 /\ UNCHANGED <<hdrbuf, wfile, outcome>>
  /\ UNCHANGED <<histVars, cwd, fs, serving, connVars, reqVars, rfile, eof, postVars, touched>>

\* Line 50, left operand: os.path.exists(file_path)
DoGetExists ==
  /\ serving
  /\ pc = "exists"
  /\ touched' = TRUE
  /\ IF ~OsExists(file_path)
     THEN Return(SendError(wfile, hdrbuf, 404, <<"File not found">>))
     ELSE /\ pc' = "isfile"
          /\ UNCHANGED <<hdrbuf, wfile, outcome>>
  /\ UNCHANGED <<histVars, cwd, fs, serving, connVars, reqVars, rfile, eof, file_path, postVars>>

\* Line 50, right operand, and lines 55-61: os.path.isfile(file_path), then
\* the content type, send_response(200) and the Content-type header.
DoGetIsFile ==
  /\ serving
  /\ pc = "isfile"
  /\ touched' = TRUE
  /\ IF ~OsIsFile(file_path)
     THEN Return(SendError(wfile, hdrbuf, 404, <<"File not found">>))
     ELSE /\ hdrbuf' = SendResponse(hdrbuf, 200)
                         \o <<Header("Content-type", ContentType(file_path))>>
          /\ pc' = "getsize"
          /\ UNCHANGED <<wfile, outcome>>
  /\ UNCHANGED <<histVars, cwd, fs, serving, connVars, reqVars, rfile, eof, file_path, postVars>>

\* Lines 62-63: the Content-Length header from os.path.getsize, and
\* end_headers, which writes the buffered headers to the client.
DoGetSize ==
  /\ serving
  /\ pc = "getsize"
  /\ touched' = TRUE
  /\ LET r == GetSize(file_path)
     IN  IF ~r.ok
         THEN InternalError(r.err)
         ELSE /\ wfile' = wfile \o hdrbuf \o <<Header("Content-Length", Str(r.val))>>
              /\ hdrbuf' = <<>>
              /\ pc' = "open"
              /\ UNCHANGED outcome
  /\ UNCHANGED <<histVars, cwd, fs, serving, connVars, reqVars, rfile, eof, file_path, postVars>>

\* Lines 66-67: open the file, read it and write it to the client.
DoGetOpen ==
  /\ serving
  /\ pc = "open"
  /\ touched' = TRUE
  /\ LET r == OpenRead(file_path)
     IN  IF ~r.ok
         THEN InternalError(r.err)
         ELSE Return(wfile \o <<Body(r.data)>>)
  /\ UNCHANGED <<histVars, cwd, fs, serving, connVars, reqVars, rfile, eof, file_path, postVars>>

\* ----------------------------------------------------------------- do_POST
\* Mutant of PostPage: the data is HTML-escaped.
PostPageEscaped(path, text) ==
  <<"<html><head><title>POST Response</title></head><body><h1>POST Request Received</h1><p>Path: ">>
    \o path \o <<"</p><p>Data: ">>
    \o [i \in 1..Len(text) |-> IF text[i] = "<" THEN "&lt;" ELSE text[i]]
    \o <<"</p></body></html>">>

\* The page do_POST builds from the path and the decoded data.
PostPage(path, text) ==
  <<"<html><head><title>POST Response</title></head><body><h1>POST Request Received</h1><p>Path: ">>
    \o path \o <<"</p><p>Data: ">> \o text \o <<"</p></body></html>">>

\* rfile.read(n): n bytes once the client has sent them, fewer at end of
\* stream; everything up to end of stream for a negative n.
ReadReady(n) == eof \/ (n >= 0 /\ Len(rfile) >= n)
ReadResult(n) ==
  IF n < 0 \/ Len(rfile) < n THEN rfile ELSE SubSeq(rfile, 1, n)

\* Line 74: content_length = int(self.headers['Content-Length'])
DoPostLength ==
  /\ serving
  /\ pc = "do_POST"
  /\ IF headers_cl = NoneType \/ ~ParseInt(headers_cl).ok
     THEN Raise /\ UNCHANGED content_length
     ELSE /\ content_length' = ParseInt(headers_cl).val
          /\ pc' = "read"
          /\ UNCHANGED <<serving, hdrbuf, wfile, outcome>>
  /\ UNCHANGED <<histVars, cwd, fs, connVars, reqVars, rfile, eof, file_path, post_data, touched>>

\* Line 75: post_data = self.rfile.read(content_length); blocks until the
\* bytes are there.
DoPostRead ==
  /\ serving
  /\ pc = "read"
  /\ ReadReady(content_length)
  /\ post_data' = ReadResult(content_length)
  /\ pc' = "respond"
  /\ UNCHANGED <<histVars, cwd, fs, serving, connVars, reqVars, rfile, eof, file_path,
                 content_length, hdrbuf, wfile, touched, outcome>>

\* Lines 78-97: decode the data for the log line, then the 200 response with
\* the page.
DoPostRespond ==
  /\ serving
  /\ pc = "respond"
  /\ LET d == Decode(post_data)
     IN  IF ~d.ok
         THEN Raise
         ELSE /\ Return(SendResponse(hdrbuf, 200)
                          \o <<Header("Content-type", <<"text/html">>),
                               Body(Encode(PostPage(target, d.text)))>>)
              /\ UNCHANGED serving
  /\ UNCHANGED <<histVars, cwd, fs, connVars, reqVars, rfile, eof, file_path, postVars, touched>>

\* ----------------------------------------------------------- specification
Next ==
  \/ Connect
  \/ ClientSend
  \/ ClientEOF
  \/ FsMutate
  \/ AcceptGet
  \/ AcceptPost
  \/ Finish
  \/ Interrupt
  \/ DoGetResolve
  \/ DoGetExists
  \/ DoGetIsFile
  \/ DoGetSize
  \/ DoGetOpen
  \/ DoPostLength
  \/ DoPostRead
  \/ DoPostRespond

Spec == Init /\ [][Next]_vars

\* ------------------------------------------- GET / next to GET /index.html
\* The same server handling only GET / and GET /index.html, with a record of
\* the last request that ran while no other process changed the file system.
IndexTargets == {<<"/">>, <<"/", "index.html">>}

AcceptIndex ==
  /\ \E t \in IndexTargets : Accept("GET", t, NoneType)
  /\ dirty' = FALSE
  /\ UNCHANGED hist

FsMutateIndex ==
  /\ FsChange
  /\ dirty' = (pc # "idle")
  /\ UNCHANGED hist

FinishIndex ==
  /\ Shutdown
  /\ hist' = IF dirty THEN <<>>
             ELSE <<[target |-> target, wfile |-> wfile, fs |-> fs]>>
  /\ dirty' = FALSE

NextIndex ==
  \/ Connect
  \/ AcceptIndex
  \/ FsMutateIndex
  \/ FinishIndex
  \/ Interrupt
  \/ DoGetResolve
  \/ DoGetExists
  \/ DoGetIsFile
  \/ DoGetSize
  \/ DoGetOpen

SpecIndex == Init /\ [][NextIndex]_vars

\* ------------------------------------------------- reading what was written
\* The status codes written to the client, in order.
RECURSIVE Codes(_)
Codes(w) ==
  IF w = <<>> THEN <<>>
  ELSE (IF Head(w).kind = "status" THEN <<Head(w).code>> ELSE <<>>) \o Codes(Tail(w))

\* The values of the headers called name, in order.
RECURSIVE HeaderValues(_, _)
HeaderValues(w, name) ==
  IF w = <<>> THEN <<>>
  ELSE (IF Head(w).kind = "header" /\ Head(w).name = name THEN <<Head(w).value>> ELSE <<>>)
         \o HeaderValues(Tail(w), name)

\* The bodies written, in order.
RECURSIVE Bodies(_)
Bodies(w) ==
  IF w = <<>> THEN <<>>
  ELSE (IF Head(w).kind = "body" THEN <<Head(w).value>> ELSE <<>>) \o Bodies(Tail(w))

\* sub occurs in s as a contiguous run.
Contains(s, sub) ==
  \E i \in 1..(Len(s) + 1) :
    /\ i + Len(sub) - 1 <= Len(s)
    /\ SubSeq(s, i, i + Len(sub) - 1) = sub

\* p is the directory root or a location below it.
InsideRoot(p, root) ==
  \/ p = root
  \/ StartsWith(p, IF root = <<"/">> THEN root ELSE root \o <<"/">>)

GetDone == command = "GET" /\ pc = "done"
PostDone == command = "POST" /\ pc = "done"

\* ------------------------------------------------------------------ claims
\* C1: a GET whose path normalizes to a location outside the root is
\* answered 403 and the handler makes no file system access for it.
C1_OutsideRootForbidden ==
  (command = "GET" /\ pc # "do_GET" /\ ~InsideRoot(ResolvePath(cwd, target), cwd))
    => (pc = "done" /\ Codes(wfile) = <<403>> /\ ~touched)

\* C2: a GET of an existing regular file is answered 200 with a
\* Content-Length equal to the length of the body written, the body being
\* the file's contents as read, whatever another process does to the file
\* during the request.
C2_LengthMatchesBody ==
  (GetDone /\ Codes(wfile) = <<200>>)
    => /\ Len(Bodies(wfile)) = 1
       /\ HeaderValues(wfile, "Content-Length") = <<Str(Len(Bodies(wfile)[1]))>>

\* C3: every GET of "/../<anything>", of "/..%2f<anything>" and of the
\* deeply nested "/a/../../../.." is answered 403, never 200.
TraversalTarget(t) ==
  \/ StartsWith(t, <<"/", ".", ".", "/">>)
  \/ StartsWith(t, <<"/", ".", ".", "%2f">>)
  \/ t = DeepNested

C3_TraversalForbidden ==
  (GetDone /\ TraversalTarget(target)) => Codes(wfile) = <<403>>

\* C7: when serving fails after the containment and existence checks, the
\* client receives status 500 with the error's text, and no 200 status line
\* has been sent for the request.
C7_FailureIs500Only ==
  (GetDone /\ \E i \in 1..Len(Codes(wfile)) : Codes(wfile)[i] = 500)
    => Codes(wfile) = <<500>>

\* C8: every GET request ends with exactly one status written to the client,
\* one of 200, 403, 404, 500.
C8_ExactlyOneStatus ==
  GetDone => (Len(Codes(wfile)) = 1 /\ Codes(wfile)[1] \in {200, 403, 404, 500})

\* C4: a GET whose path normalizes inside the root to a missing location or
\* to a directory is answered 404 and never 200.  Stated on the two checks
\* of line 50: the existence check ends the request with 404 when the
\* location is missing and writes nothing when it is not; the type check
\* ends it with 404 when the location is missing or a directory.
C4_MissingOrDirectoryIs404 ==
  [][ (/\ command = "GET"
       /\ pc \in {"exists", "isfile"}
       /\ pc' \notin {pc, "stopped"}
       /\ InsideRoot(file_path, cwd)
       /\ Lookup(file_path).kind \in {"missing", "dir"})
      => IF pc = "exists" /\ Lookup(file_path).kind = "dir"
         THEN pc' = "isfile" /\ Codes(hdrbuf' \o wfile') = <<>>
         ELSE pc' = "done" /\ Codes(wfile') = <<404>> /\ hdrbuf' = <<>> ]_vars

\* A finished GET of the root directory itself, answered 404.
C4_Witness ==
  /\ GetDone
  /\ file_path = cwd
  /\ Lookup(file_path).kind = "dir"
  /\ Codes(wfile) = <<404>>

\* C6: a POST to any path with a numeric Content-Length and a UTF-8-decodable
\* body is answered 200 with Content-type text/html and a page that holds
\* the request path and the body unescaped, whatever the path and the file
\* system.
C6_PostEchoes ==
  (PostDone /\ headers_cl # NoneType /\ ParseInt(headers_cl).ok /\ Decode(post_data).ok)
    => /\ outcome = "returned"
       /\ Codes(wfile) = <<200>>
       /\ HeaderValues(wfile, "Content-type") = << <<"text/html">> >>
       /\ Len(Bodies(wfile)) = 1
       /\ Contains(Bodies(wfile)[1], post_data)
       /\ Contains(Bodies(wfile)[1], Encode(target))

\* A finished POST whose body is "<", echoed with status 200.
C6_Witness ==
  /\ PostDone
  /\ post_data = <<"3C">>
  /\ target = <<"/", "site", "-backup">>
  /\ Codes(wfile) = <<200>>

\* C9: a POST with a missing or non-numeric Content-Length, or with a body
\* that is not UTF-8, raises out of do_POST with nothing written; the server
\* keeps serving, the connection is shut down and waiting connections are
\* accepted.
BadPost ==
  \/ headers_cl = NoneType
  \/ ~ParseInt(headers_cl).ok
  \/ ~Decode(post_data).ok

C9_PostErrorPropagates ==
  /\ (PostDone /\ BadPost)
       => (outcome = "raised" /\ wfile = <<>> /\ hdrbuf = <<>> /\ serving /\ ENABLED Finish)
  /\ (pc = "done" /\ outcome = "raised") => (command = "POST" /\ BadPost /\ serving)
  /\ (serving /\ pc = "idle" /\ accepted < arrived)
       => (ENABLED AcceptGet /\ ENABLED AcceptPost)

\* A POST has raised on a body cut inside a character, and another
\* connection waits.
C9_Witness ==
  /\ PostDone
  /\ outcome = "raised"
  /\ post_data = <<"C3">>
  /\ accepted < arrived

\* C10: at most one request is being handled at any moment, a connection is
\* accepted only when no request is being handled, and while a client
\* stalls in the body read no other connection is accepted and nothing is
\* written.
Stalled ==
  /\ pc = "read"
  /\ ~ReadReady(content_length)

C10_Serial ==
  /\ [](Cardinality(active) <= 1)
  /\ [][accepted' # accepted => (active = {} /\ pc = "idle" /\ active' = {accepted'})]_vars
  /\ [][Stalled => (accepted' = accepted /\ wfile' = wfile /\ active' \subseteq active)]_vars

\* A client stalls while another connection waits.
C10_Witness ==
  /\ Stalled
  /\ accepted < arrived

\* C5: GET / resolves to the same file as GET /index.html and, on the same
\* file system state, gets the same response: 200 with index.html's bytes
\* when index.html is a regular (readable) file in the root, 404 when it is
\* missing or not a regular file.
IndexFile == cwd \o <<"/", "index.html">>

====
